---- MODULE Spec2Model ----
(***************************************************************************)
(* The in-memory todo service (TodoService) of the Todo API: its todo      *)
(* collection, its id counter, its validation rules and the values its     *)
(* operations hand back to their callers.                                  *)
(***************************************************************************)
EXTENDS Integers, Sequences, FiniteSets, TLC

VARIABLES
    todos,      \* TodoService.todos: the stored todo objects, in array order
    nextId,     \* TodoService.nextId
    now,        \* the wall clock read by new Date(), in milliseconds
    created,    \* history: ids returned by successful createTodo calls, in order
    deleted     \* history: ids removed by successful deleteTodo calls

vars == <<todos, nextId, now, created, deleted>>

\* ------------------------------------------------------------------ bounds
MaxId == 2          \* Spec explores createTodo while nextId <= MaxId
MaxTime == 1        \* Spec explores the clock up to this millisecond
MaxLifecycleId == 3 \* SpecLifecycle explores createTodo up to this nextId
MaxStatsTodos == 40 \* SpecStats explores lists of up to this many todos
MaxHttpId == 3      \* POST /todos is served while nextId <= MaxHttpId
LongListTodos == 201 \* SpecLongList starts from a list of this many todos

\* ------------------------------------------------------- program constants
MaxTitleLen == 200
MaxDescLen == 1000

\* ------------------------------------------------------------------ strings
\* A string is a sequence of runs [c |-> character, n |-> repetitions], with
\* n > 0 and no two adjacent runs of the same character.
Run(ch, k) == [c |-> ch, n |-> k]
Rep(ch, k) == IF k = 0 THEN <<>> ELSE <<Run(ch, k)>>

IsWhitespace(ch) == ch \in {" ", "\t", "\n"}

RECURSIVE StrLen(_)
StrLen(s) == IF s = <<>> THEN 0 ELSE Head(s).n + StrLen(Tail(s))

RECURSIVE TrimStart(_)
TrimStart(s) ==
    IF s # <<>> /\ IsWhitespace(Head(s).c) THEN TrimStart(Tail(s)) ELSE s

RECURSIVE TrimEnd(_)
TrimEnd(s) ==
    IF s # <<>> /\ IsWhitespace(s[Len(s)].c)
    THEN TrimEnd(SubSeq(s, 1, Len(s) - 1))
    ELSE s

\* a trim that strips the leading whitespace only (trimStart for trim)
Trim_OnlyStart(s) == TrimStart(s)

\* String.prototype.trim
Trim(s) == TrimEnd(TrimStart(s))

\* --------------------------------------------------------- JavaScript values
JUndefined == [t |-> "undefined", b |-> FALSE, n |-> 0, s |-> <<>>]
JNull      == [t |-> "null",      b |-> FALSE, n |-> 0, s |-> <<>>]
JBool(x)   == [t |-> "boolean",   b |-> x,     n |-> 0, s |-> <<>>]
JNum(x)    == [t |-> "number",    b |-> FALSE, n |-> x, s |-> <<>>]
JStr(x)    == [t |-> "string",    b |-> FALSE, n |-> 0, s |-> x]

\* ToBoolean: what `!v` and `v && ...` test
Truthy(v) ==
    CASE v.t = "undefined" -> FALSE
      [] v.t = "null"      -> FALSE
      [] v.t = "boolean"   -> v.b
      [] v.t = "number"    -> v.n # 0
      [] v.t = "string"    -> v.s # <<>>

\* typeof v === 'string'
IsString(v) == v.t = "string"

\* v === null || v === undefined: where `?.` short-circuits
IsNullish(v) == v.t \in {"undefined", "null"}

\* ------------------------------------------------------------------- inputs
TitleValues ==
    { JUndefined, JNull, JBool(FALSE), JNum(0), JNum(1),
      JStr(<<>>),
      JStr(Rep(" ", 3)),
      JStr(Rep(" ", MaxTitleLen + 1)),
      JStr(Rep("a", 1)),
      JStr(<<Run(" ", 1), Run("a", 1), Run("\t", 2)>>),
      JStr(Rep("a", MaxTitleLen)),
      JStr(<<Run(" ", 1), Run("a", MaxTitleLen), Run(" ", 1)>>),
      JStr(Rep("a", MaxTitleLen + 1)) }

DescriptionValues ==
    { JUndefined, JNull, JBool(FALSE), JNum(0), JNum(1),
      JStr(<<>>),
      JStr(Rep(" ", MaxDescLen + 1)),
      JStr(Rep("d", MaxDescLen)),
      JStr(<<Run(" ", 1), Run("d", MaxDescLen), Run("\n", 1)>>),
      JStr(Rep("d", MaxDescLen + 1)) }

CompletedValues ==
    { JUndefined, JNull, JBool(FALSE), JBool(TRUE), JNum(1), JStr(Rep("a", 1)) }

ValidTitle == JStr(Rep("a", 1))

\* CreateTodoInput: every title alone, and every description with a valid title
CreateInputs ==
    { [title |-> v, description |-> JUndefined] : v \in TitleValues }
    \cup { [title |-> ValidTitle, description |-> v] : v \in DescriptionValues }
    \cup { [title |-> JStr(Rep(" ", 3)), description |-> JNum(0)],
           [title |-> JStr(Rep("a", MaxTitleLen + 1)),
            description |-> JStr(Rep("d", MaxDescLen + 1))] }

\* UpdateTodoInput: the empty partial, every single field, and some pairs
UpdateInputs ==
    { [title |-> v, description |-> JUndefined, completed |-> JUndefined] :
        v \in TitleValues }
    \cup { [title |-> JUndefined, description |-> v, completed |-> JUndefined] :
        v \in DescriptionValues }
    \cup { [title |-> JUndefined, description |-> JUndefined, completed |-> v] :
        v \in CompletedValues }
    \cup { [title |-> JStr(Rep("a", MaxTitleLen)), description |-> JNum(1),
            completed |-> JBool(TRUE)],
           [title |-> ValidTitle, description |-> JStr(Rep("d", MaxDescLen)),
            completed |-> JStr(Rep("a", 1))] }

\* the ids Spec calls with: those createTodo can have handed out
Ids == 1 .. MaxId

\* The inputs of SpecLifecycle: few field values, more todos
LifecycleCreateInputs ==
    { [title |-> ValidTitle, description |-> JUndefined],
      [title |-> JStr(<<Run(" ", 1), Run("a", 1), Run("\t", 2)>>),
       description |-> JNull],
      [title |-> ValidTitle, description |-> JNum(0)],
      [title |-> JStr(Rep(" ", 3)), description |-> JUndefined] }

LifecycleUpdateInputs ==
    { [title |-> JUndefined, description |-> JUndefined,
       completed |-> JUndefined],
      [title |-> JStr(Rep("a", MaxTitleLen)), description |-> JUndefined,
       completed |-> JUndefined],
      [title |-> JUndefined, description |-> JUndefined,
       completed |-> JBool(TRUE)],
      [title |-> JUndefined, description |-> JUndefined,
       completed |-> JNull] }

LifecycleIds == 1 .. (MaxLifecycleId + 1)

\* the ids the claims are stated for
AnyId == Ids \cup LifecycleIds

\* ------------------------------------------------------------------ results
NoError == ""

\* A call's outcome: status "ok" (a value came back), "null" (the not-found
\* signal), "Error" (thrown by a validator) or "TypeError" (thrown by the
\* runtime). val holds the returned todo object, a fresh object owned by the
\* caller; list holds the returned array, whose elements are references to
\* stored objects, each named by its position in todos.
Result(status, msg, val, list) ==
    [status |-> status, msg |-> msg, val |-> val, list |-> list]

Returned(todo)       == Result("ok", NoError, <<todo>>, <<>>)
ReturnedNull         == Result("null", NoError, <<>>, <<>>)
Thrown(msg)          == Result("Error", msg, <<>>, <<>>)
ThrownTypeError(msg) == Result("TypeError", msg, <<>>, <<>>)

\* A call on the service `self` = [todos, nextId] leaves the service as
\* `self` and hands `result` to the caller.
Outcome(list, id, result) ==
    [self |-> [todos |-> list, nextId |-> id], result |-> result]

\* Array.prototype.findIndex(t => t.id === id): 0 stands for -1
FindIndex(list, id) ==
    IF \E i \in 1 .. Len(list) : list[i].id = id
    THEN CHOOSE i \in 1 .. Len(list) :
            /\ list[i].id = id
            /\ \A j \in 1 .. (i - 1) : list[j].id # id
    ELSE 0

\* a removal that fills the hole with the last element
Splice_SwapWithLast(list, index) ==
    IF index = Len(list)
    THEN SubSeq(list, 1, Len(list) - 1)
    ELSE SubSeq([list EXCEPT ![index] = list[Len(list)]], 1, Len(list) - 1)

\* Array.prototype.splice(index, 1)
Splice(list, index) ==
    SubSeq(list, 1, index - 1) \o SubSeq(list, index + 1, Len(list))

\* --------------------------------------------------------------- validation
\* a validator that measures the title without trimming it
validateCreateInput_Untrimmed(input) ==
    IF ~Truthy(input.title) \/ ~IsString(input.title)
    THEN "Title is required and must be a string"
    ELSE IF StrLen(input.title.s) = 0
    THEN "Title cannot be empty"
    ELSE IF StrLen(input.title.s) > MaxTitleLen
    THEN "Title cannot be longer than 200 characters"
    ELSE IF Truthy(input.description) /\ ~IsString(input.description)
    THEN "Description must be a string"
    ELSE IF Truthy(input.description)
            /\ StrLen(input.description.s) > MaxDescLen
    THEN "Description cannot be longer than 1000 characters"
    ELSE NoError

validateCreateInput(input) ==
    IF ~Truthy(input.title) \/ ~IsString(input.title)
    THEN "Title is required and must be a string"
    ELSE IF StrLen(Trim(input.title.s)) = 0
    THEN "Title cannot be empty"
    ELSE IF StrLen(Trim(input.title.s)) > MaxTitleLen
    THEN "Title cannot be longer than 200 characters"
    ELSE IF Truthy(input.description) /\ ~IsString(input.description)
    THEN "Description must be a string"
    ELSE IF Truthy(input.description)
            /\ StrLen(Trim(input.description.s)) > MaxDescLen
    THEN "Description cannot be longer than 1000 characters"
    ELSE NoError

\* an update validation without the empty-title rule
validateUpdateInput_AllowsBlank(input) ==
    IF input.title # JUndefined /\ ~IsString(input.title)
    THEN "Title must be a string"
    ELSE IF input.title # JUndefined
            /\ StrLen(Trim(input.title.s)) > MaxTitleLen
    THEN "Title cannot be longer than 200 characters"
    ELSE IF input.description # JUndefined /\ ~IsString(input.description)
    THEN "Description must be a string"
    ELSE IF input.description # JUndefined
            /\ StrLen(Trim(input.description.s)) > MaxDescLen
    THEN "Description cannot be longer than 1000 characters"
    ELSE IF input.completed # JUndefined /\ input.completed.t # "boolean"
    THEN "Completed must be a boolean"
    ELSE NoError

validateUpdateInput(input) ==
    IF input.title # JUndefined /\ ~IsString(input.title)
    THEN "Title must be a string"
    ELSE IF input.title # JUndefined /\ StrLen(Trim(input.title.s)) = 0
    THEN "Title cannot be empty"
    ELSE IF input.title # JUndefined
            /\ StrLen(Trim(input.title.s)) > MaxTitleLen
    THEN "Title cannot be longer than 200 characters"
    ELSE IF input.description # JUndefined /\ ~IsString(input.description)
    THEN "Description must be a string"
    ELSE IF input.description # JUndefined
            /\ StrLen(Trim(input.description.s)) > MaxDescLen
    THEN "Description cannot be longer than 1000 characters"
    ELSE IF input.completed # JUndefined /\ input.completed.t # "boolean"
    THEN "Completed must be a boolean"
    ELSE NoError

\* ------------------------------------------------------- service operations
\* [...this.todos]: a new array of the same object references
getAllTodos(self) ==
    Outcome(self.todos, self.nextId,
            Result("ok", NoError, <<>>, [i \in 1 .. Len(self.todos) |-> i]))

\* { ...todo } of the first match, or null
getTodoById(self, id) ==
    LET index == FindIndex(self.todos, id) IN
    Outcome(self.todos, self.nextId,
            IF index # 0 THEN Returned(self.todos[index]) ELSE ReturnedNull)

\* an id taken from the length of the collection
NewTodoId_FromLength(self) == Len(self.todos) + 1

\* id: ++this.nextId hands out the counter's value after the increment
NewTodoId_AfterIncrement(self) == self.nextId + 1

\* id: this.nextId++ hands out the counter's value before the increment
NewTodoId(self) == self.nextId

\* The object literal is evaluated field by field: this.nextId++ comes first,
\* and input.description?.trim() throws for a description that is neither
\* nullish nor a string.
createTodo(self, input, t) ==
    LET err == validateCreateInput(input) IN
    IF err # NoError
    THEN Outcome(self.todos, self.nextId, Thrown(err))
    ELSE IF ~IsNullish(input.description) /\ ~IsString(input.description)
    THEN Outcome(self.todos, self.nextId + 1,
                 ThrownTypeError("input.description.trim is not a function"))
    ELSE LET newTodo ==
               [id          |-> NewTodoId(self),
                title       |-> Trim(input.title.s),
                description |-> IF IsNullish(input.description)
                                THEN <<>>
                                ELSE Trim(input.description.s),
                completed   |-> FALSE,
                createdAt   |-> t,
                updatedAt   |-> t]
         IN Outcome(Append(self.todos, newTodo), self.nextId + 1,
                    Returned(newTodo))

\* an update that defaults the description as createTodo does
UpdatedTodo_DefaultsDescription(currentTodo, input, t) ==
    [id          |-> currentTodo.id,
     title       |-> IF input.title # JUndefined
                     THEN Trim(input.title.s)
                     ELSE currentTodo.title,
     description |-> IF input.description # JUndefined
                     THEN Trim(input.description.s)
                     ELSE <<>>,
     completed   |-> IF input.completed # JUndefined
                     THEN input.completed.b
                     ELSE currentTodo.completed,
     createdAt   |-> currentTodo.createdAt,
     updatedAt   |-> t]

\* an update that leaves updatedAt as it was
UpdatedTodo_KeepsUpdatedAt(currentTodo, input, t) ==
    [id          |-> currentTodo.id,
     title       |-> IF input.title # JUndefined
                     THEN Trim(input.title.s)
                     ELSE currentTodo.title,
     description |-> IF input.description # JUndefined
                     THEN Trim(input.description.s)
                     ELSE currentTodo.description,
     completed   |-> IF input.completed # JUndefined
                     THEN input.completed.b
                     ELSE currentTodo.completed,
     createdAt   |-> currentTodo.createdAt,
     updatedAt   |-> currentTodo.updatedAt]

\* an update that stamps createdAt as well
UpdatedTodo_RestampsCreatedAt(currentTodo, input, t) ==
    [id          |-> currentTodo.id,
     title       |-> IF input.title # JUndefined
                     THEN Trim(input.title.s)
                     ELSE currentTodo.title,
     description |-> IF input.description # JUndefined
                     THEN Trim(input.description.s)
                     ELSE currentTodo.description,
     completed   |-> IF input.completed # JUndefined
                     THEN input.completed.b
                     ELSE currentTodo.completed,
     createdAt   |-> t,
     updatedAt   |-> t]

\* { ...currentTodo, ...(provided fields), updatedAt }: a new object
UpdatedTodo(currentTodo, input, t) ==
    [id          |-> currentTodo.id,
     title       |-> IF input.title # JUndefined
                     THEN Trim(input.title.s)
                     ELSE currentTodo.title,
     description |-> IF input.description # JUndefined
                     THEN Trim(input.description.s)
                     ELSE currentTodo.description,
     completed   |-> IF input.completed # JUndefined
                     THEN input.completed.b
                     ELSE currentTodo.completed,
     createdAt   |-> currentTodo.createdAt,
     updatedAt   |-> t]

\* an update that validates before it looks the id up
updateTodo_ValidatesFirst(self, id, input, t) ==
    LET todoIndex == FindIndex(self.todos, id)
        err == validateUpdateInput(input)
    IN
    IF err # NoError
    THEN Outcome(self.todos, self.nextId, Thrown(err))
    ELSE IF todoIndex = 0
    THEN Outcome(self.todos, self.nextId, ReturnedNull)
    ELSE LET updatedTodo == UpdatedTodo(self.todos[todoIndex], input, t)
         IN Outcome([self.todos EXCEPT ![todoIndex] = updatedTodo],
                    self.nextId, Returned(updatedTodo))

updateTodo(self, id, input, t) ==
    LET todoIndex == FindIndex(self.todos, id) IN
    IF todoIndex = 0
    THEN Outcome(self.todos, self.nextId, ReturnedNull)
    ELSE LET err == validateUpdateInput(input) IN
         IF err # NoError
         THEN Outcome(self.todos, self.nextId, Thrown(err))
         ELSE LET updatedTodo == UpdatedTodo(self.todos[todoIndex], input, t)
              IN Outcome([self.todos EXCEPT ![todoIndex] = updatedTodo],
                         self.nextId, Returned(updatedTodo))

\* a delete that returns the todo and leaves it in the collection
deleteTodo_KeepsTodo(self, id) ==
    LET todoIndex == FindIndex(self.todos, id) IN
    IF todoIndex = 0
    THEN Outcome(self.todos, self.nextId, ReturnedNull)
    ELSE Outcome(self.todos, self.nextId, Returned(self.todos[todoIndex]))

deleteTodo(self, id) ==
    LET todoIndex == FindIndex(self.todos, id) IN
    IF todoIndex = 0
    THEN Outcome(self.todos, self.nextId, ReturnedNull)
    ELSE Outcome(Splice(self.todos, todoIndex), self.nextId,
                 Returned(self.todos[todoIndex]))

\* a toggle that marks the todo as completed instead of flipping the flag
toggleTodo_SetsCompleted(self, id, t) ==
    LET index == FindIndex(self.todos, id) IN
    IF index = 0
    THEN Outcome(self.todos, self.nextId, ReturnedNull)
    ELSE LET todo == [self.todos[index] EXCEPT !.completed = TRUE,
                                                !.updatedAt = t]
         IN Outcome([self.todos EXCEPT ![index] = todo], self.nextId,
                    Returned(todo))

toggleTodo(self, id, t) ==
    LET index == FindIndex(self.todos, id) IN
    IF index = 0
    THEN Outcome(self.todos, self.nextId, ReturnedNull)
    ELSE LET todo == [self.todos[index] EXCEPT !.completed = ~@,
                                                !.updatedAt = t]
         IN Outcome([self.todos EXCEPT ![index] = todo], self.nextId,
                    Returned(todo))

\* ----------------------------------------------------- number arithmetic
\* completed / total and (...) * 100 are IEEE-754 binary64 operations: each
\* result is the exact value rounded to Precision significant bits, ties to
\* the even significand.  A number is [bits, exp]: the binary digits of its
\* significand, most significant first and without leading zeros, and the
\* power of two the significand is scaled by; zero has no digits.
Precision == 53

\* digits after the binary point of a quotient with the largest divisor
FracDigits == Precision + 12

RECURSIVE Reverse(_)
Reverse(bits) ==
    IF bits = <<>> THEN <<>> ELSE Reverse(Tail(bits)) \o <<Head(bits)>>

RECURSIVE Zeros(_)
Zeros(n) == IF n = 0 THEN <<>> ELSE <<0>> \o Zeros(n - 1)

\* the first n binary digits of r / t after the point, for 0 <= r < t
RECURSIVE Expansion(_, _, _)
Expansion(r, t, n) ==
    IF n = 0
    THEN <<>>
    ELSE LET b == IF 2 * r >= t THEN 1 ELSE 0
         IN <<b>> \o Expansion(2 * r - b * t, t, n - 1)

\* what is left of r / t after its first n digits
RECURSIVE ExpansionRest(_, _, _)
ExpansionRest(r, t, n) ==
    IF n = 0
    THEN r
    ELSE IF 2 * r >= t
         THEN ExpansionRest(2 * r - t, t, n - 1)
         ELSE ExpansionRest(2 * r, t, n - 1)

RECURSIVE StripZeros(_)
StripZeros(bits) ==
    IF bits # <<>> /\ Head(bits) = 0 THEN StripZeros(Tail(bits)) ELSE bits

\* digits, least significant first, of (digits of rev) * k + carry
RECURSIVE TimesRev(_, _, _)
TimesRev(rev, k, carry) ==
    IF rev = <<>>
    THEN IF carry = 0
         THEN <<>>
         ELSE <<carry % 2>> \o TimesRev(<<>>, k, carry \div 2)
    ELSE LET d == Head(rev) * k + carry
         IN <<d % 2>> \o TimesRev(Tail(rev), k, d \div 2)

Increment(bits) == Reverse(TimesRev(Reverse(bits), 1, 1))

\* round to nearest, ties to even; sticky says that the exact value has
\* something below the last digit of bits
RoundNearestEven(digits, exp, sticky) ==
    LET bits == StripZeros(digits) IN
    IF Len(bits) <= Precision
    THEN [bits |-> bits, exp |-> exp]
    ELSE LET sig   == SubSeq(bits, 1, Precision)
             guard == bits[Precision + 1]
             below == sticky \/ \E i \in (Precision + 2) .. Len(bits) :
                                     bits[i] = 1
             drop  == Len(bits) - Precision
             up    == guard = 1 /\ (below \/ sig[Precision] = 1)
             inc   == Increment(sig)
         IN IF ~up
            THEN [bits |-> sig, exp |-> exp + drop]
            ELSE IF Len(inc) > Precision
                 THEN [bits |-> SubSeq(inc, 1, Precision),
                       exp |-> exp + drop + 1]
                 ELSE [bits |-> inc, exp |-> exp + drop]

\* c / t for 0 <= c <= t and 0 < t
Divide(c, t) ==
    RoundNearestEven(<<c \div t>> \o Expansion(c % t, t, FracDigits),
                     0 - FracDigits,
                     ExpansionRest(c % t, t, FracDigits) # 0)

\* x * k for a small integer k
Times(x, k) ==
    RoundNearestEven(Reverse(TimesRev(Reverse(x.bits), k, 0)), x.exp, FALSE)

RECURSIVE ToInt(_)
ToInt(bits) ==
    IF bits = <<>>
    THEN 0
    ELSE 2 * ToInt(SubSeq(bits, 1, Len(bits) - 1)) + bits[Len(bits)]

\* Math.floor in the place of Math.round: the integer part
MathRound_Floor(x) ==
    IF x.exp >= 0
    THEN ToInt(x.bits \o Zeros(x.exp))
    ELSE ToInt(SubSeq(x.bits, 1, Len(x.bits) + x.exp))

\* Math.round(x) for 0 <= x < 2^Precision: the integer part, plus one when
\* the fraction is at least a half (its first digit is 1)
MathRound(x) ==
    IF x.exp >= 0
    THEN ToInt(x.bits \o Zeros(x.exp))
    ELSE LET f == 0 - x.exp
             L == Len(x.bits)
         IN ToInt(SubSeq(x.bits, 1, L - f))
              + (IF L >= f THEN x.bits[L - f + 1] ELSE 0)

\* Math.round((completed / total) * 100)
RoundedRate(completed, total) ==
    MathRound(Times(Divide(completed, total), 100))

\* the rates of the lists the specifications explore, computed once
Rates ==
    [total \in 1 .. MaxStatsTodos |->
        [completed \in 0 .. total |-> RoundedRate(completed, total)]]

CompletionRate(completed, total) ==
    IF total > 0
    THEN IF total <= MaxStatsTodos
         THEN Rates[total][completed]
         ELSE RoundedRate(completed, total)
    ELSE 0

Stats(total, completed, pending, completionRate) ==
    [total |-> total, completed |-> completed, pending |-> pending,
     completionRate |-> completionRate]

getStats(self) ==
    LET total     == Len(self.todos)
        completed == Len(SelectSeq(self.todos, LAMBDA t : t.completed))
        pending   == total - completed
    IN Outcome(self.todos, self.nextId,
               Result("ok", NoError,
                      <<Stats(total, completed, pending,
                              CompletionRate(completed, total))>>, <<>>))

\* --------------------------------------------------------------------- HTTP
\* A request to the todos router: the method, the path below the router's
\* mount point as a sequence of segments (each a sequence of characters), the
\* Content-Type and Content-Length headers and the parsed JSON body.
NoHeader == ""
JsonType == "application/json"
JsonUtf8Type == "application/json; charset=utf-8"
TextType == "text/plain"

Request(method, path, contentType, contentLength, body) ==
    [method |-> method, path |-> path, contentType |-> contentType,
     contentLength |-> contentLength, body |-> body]

Body(title, description, completed) ==
    [title |-> title, description |-> description, completed |-> completed]

\* express.json() leaves {} when the request carries no body
EmptyBody == Body(JUndefined, JUndefined, JUndefined)

Digits == <<"0", "1", "2", "3", "4", "5", "6", "7", "8", "9">>

IsDigit(c) == \E d \in 1 .. Len(Digits) : Digits[d] = c

DigitValue(c) == (CHOOSE d \in 1 .. Len(Digits) : Digits[d] = c) - 1

\* the decimal digits of a path parameter, read as a number
RECURSIVE ParseInt(_)
ParseInt(segment) ==
    IF segment = <<>>
    THEN 0
    ELSE Len(Digits) * ParseInt(SubSeq(segment, 1, Len(segment) - 1))
           + DigitValue(segment[Len(segment)])

\* the path segment a client writes for an id
RECURSIVE DecimalString(_)
DecimalString(n) ==
    IF n < Len(Digits)
    THEN <<Digits[n + 1]>>
    ELSE DecimalString(n \div Len(Digits)) \o <<Digits[(n % Len(Digits)) + 1]>>

StatsSegment == <<"s", "t", "a", "t", "s">>
ToggleSegment == <<"t", "o", "g", "g", "l", "e">>

\* what a handler leaves: the service, and either the response it sent or
\* the error it threw
Sent(status, data) ==
    [kind |-> "sent", status |-> status, data |-> data, error |-> <<>>]

Threw(error) ==
    [kind |-> "threw", status |-> 0, data |-> <<>>, error |-> <<error>>]

Handled(self, reply) == [self |-> self, reply |-> reply]

\* new AppError(message, statusCode)
AppError(message, statusCode) ==
    [class |-> "AppError", message |-> message, statusCode |-> statusCode]

\* the error a service call threw: an Error or a TypeError
ServiceError(result) ==
    [class |-> result.status, message |-> result.msg, statusCode |-> 0]

\* error instanceof Error: AppError and TypeError extend Error
InstanceOfError(error) == error.class \in {"Error", "TypeError", "AppError"}

\* `Todo with ID ${id} not found`
NotFoundMessage == "Todo with ID ${id} not found"

\* error.message.includes('not found'): of the messages thrown below a
\* controller only the controller's own 404 message does
IncludesNotFound(message) == message = NotFoundMessage

\* ---- controllers: each returns Handled(service, response or thrown error)
getAllTodosHandler(self) ==
    LET out  == getAllTodos(self)
        list == out.result.list
    IN Handled(out.self,
               Sent(200, <<[i \in 1 .. Len(list) |-> self.todos[list[i]]]>>))

getTodoByIdHandler(self, id) ==
    LET out == getTodoById(self, id) IN
    IF out.result.status = "null"
    THEN Handled(out.self, Threw(AppError(NotFoundMessage, 404)))
    ELSE Handled(out.self, Sent(200, out.result.val))

\* try { createTodo } catch (error): every Error becomes an AppError 400
createTodoHandler(self, body, t) ==
    LET input == [title |-> body.title, description |-> body.description]
        out   == createTodo(self, input, t)
        error == ServiceError(out.result)
    IN IF out.result.status = "ok"
       THEN Handled(out.self, Sent(201, out.result.val))
       ELSE IF InstanceOfError(error)
       THEN Handled(out.self, Threw(AppError(error.message, 400)))
       ELSE Handled(out.self, Threw(error))

\* the 404 is thrown inside the try block and goes through the catch block
updateTodoHandler(self, id, body, t) ==
    LET input == [title |-> body.title, description |-> body.description,
                  completed |-> body.completed]
        out   == updateTodo(self, id, input, t)
        error == IF out.result.status = "null"
                 THEN AppError(NotFoundMessage, 404)
                 ELSE ServiceError(out.result)
    IN IF out.result.status = "ok"
       THEN Handled(out.self, Sent(200, out.result.val))
       ELSE IF InstanceOfError(error) /\ IncludesNotFound(error.message)
       THEN Handled(out.self, Threw(AppError(error.message, 404)))
       ELSE IF InstanceOfError(error)
       THEN Handled(out.self, Threw(AppError(error.message, 400)))
       ELSE Handled(out.self, Threw(error))

deleteTodoHandler(self, id) ==
    LET out == deleteTodo(self, id) IN
    IF out.result.status = "null"
    THEN Handled(out.self, Threw(AppError(NotFoundMessage, 404)))
    ELSE Handled(out.self, Sent(200, out.result.val))

toggleTodoHandler(self, id, t) ==
    LET out == toggleTodo(self, id, t) IN
    IF out.result.status = "null"
    THEN Handled(out.self, Threw(AppError(NotFoundMessage, 404)))
    ELSE Handled(out.self, Sent(200, out.result.val))

getTodoStatsHandler(self) ==
    LET out == getStats(self) IN
    Handled(out.self, Sent(200, out.result.val))

\* ---- error middleware
\* errorHandler: an AppError is reported with its statusCode, anything else
\* as 500
errorHandler(error) ==
    Sent(IF error.class = "AppError" THEN error.statusCode ELSE 500, <<>>)

\* asyncHandler: what the wrapped controller throws goes to errorHandler
asyncHandler(handled) ==
    IF handled.reply.kind = "threw"
    THEN Handled(handled.self, errorHandler(handled.reply.error[1]))
    ELSE handled

\* notFoundHandler: no route matched
notFoundHandler(self) == Handled(self, Sent(404, <<>>))

\* ---- validation middleware
\* validateIdParam: the numeric id, or 0 for a parameter that is not a
\* positive integer (answered with 400)
validateIdParam(segment) ==
    IF segment # <<>> /\ \A k \in 1 .. Len(segment) : IsDigit(segment[k])
    THEN ParseInt(segment)
    ELSE 0

\* a create body that breaks a validation rule
BreaksCreateRules(body) ==
    \/ ~IsString(body.title)
    \/ StrLen(Trim(body.title.s)) = 0
    \/ StrLen(Trim(body.title.s)) > MaxTitleLen
    \/ body.description # JUndefined /\ ~IsString(body.description)
    \/ IsString(body.description)
         /\ StrLen(Trim(body.description.s)) > MaxDescLen

\* an update body that breaks a validation rule
BreaksUpdateRules(body) ==
    \/ body.title # JUndefined /\ BreaksCreateRules(Body(body.title,
                                        body.description, JUndefined))
    \/ body.description # JUndefined /\ ~IsString(body.description)
    \/ IsString(body.description)
         /\ StrLen(Trim(body.description.s)) > MaxDescLen
    \/ body.completed # JUndefined /\ body.completed.t # "boolean"

\* validateCreateTodo, validateUpdateTodo: TRUE when the request goes on to
\* the controller.  Whether they check the body themselves or leave that to
\* the service is open (checksBody); a body they turn down is answered with
\* 400.
validateCreateTodo(body, checksBody) ==
    ~(checksBody /\ BreaksCreateRules(body))

validateUpdateTodo(body, checksBody) ==
    ~(checksBody /\ BreaksUpdateRules(body))

\* ---- security middleware
\* maxSize = 1024 * 1024
MaxRequestSize == 1024 * 1024

\* validateRequestSize: TRUE when the request goes on; a missing header is 0
validateRequestSize(req) == ~(req.contentLength > MaxRequestSize)

\* contentType.includes('application/json')
IncludesJson(contentType) == contentType \in {JsonType, JsonUtf8Type}

\* validateContentType: TRUE when the request goes on
validateContentType(req) ==
    \/ req.method \notin {"POST", "PUT", "PATCH"}
    \/ (req.contentType # NoHeader /\ IncludesJson(req.contentType))

\* a router that registers '/:id' before '/stats'
todoRoutes_IdBeforeStats(self, req, t, checksBody) ==
    LET path      == req.path
        numericId == validateIdParam(path[1])
    IN
    IF req.method = "GET" /\ path = <<>>
    THEN asyncHandler(getAllTodosHandler(self))
    ELSE IF req.method = "POST" /\ path = <<>>
    THEN IF validateCreateTodo(req.body, checksBody)
         THEN asyncHandler(createTodoHandler(self, req.body, t))
         ELSE Handled(self, Sent(400, <<>>))
    ELSE IF req.method = "GET" /\ Len(path) = 1
    THEN IF numericId = 0
         THEN Handled(self, Sent(400, <<>>))
         ELSE asyncHandler(getTodoByIdHandler(self, numericId))
    ELSE IF req.method = "GET" /\ path = <<StatsSegment>>
    THEN asyncHandler(getTodoStatsHandler(self))
    ELSE IF req.method = "PUT" /\ Len(path) = 1
    THEN IF numericId = 0
         THEN Handled(self, Sent(400, <<>>))
         ELSE IF validateUpdateTodo(req.body, checksBody)
         THEN asyncHandler(updateTodoHandler(self, numericId, req.body, t))
         ELSE Handled(self, Sent(400, <<>>))
    ELSE IF req.method = "DELETE" /\ Len(path) = 1
    THEN IF numericId = 0
         THEN Handled(self, Sent(400, <<>>))
         ELSE asyncHandler(deleteTodoHandler(self, numericId))
    ELSE IF req.method = "PATCH" /\ Len(path) = 2 /\ path[2] = ToggleSegment
    THEN IF numericId = 0
         THEN Handled(self, Sent(400, <<>>))
         ELSE asyncHandler(toggleTodoHandler(self, numericId, t))
    ELSE notFoundHandler(self)

\* ---- router: the first route that matches the method and the path
todoRoutes(self, req, t, checksBody) ==
    LET path      == req.path
        numericId == validateIdParam(path[1])
    IN
    IF req.method = "GET" /\ path = <<StatsSegment>>
    THEN asyncHandler(getTodoStatsHandler(self))
    ELSE IF req.method = "GET" /\ path = <<>>
    THEN asyncHandler(getAllTodosHandler(self))
    ELSE IF req.method = "POST" /\ path = <<>>
    THEN IF validateCreateTodo(req.body, checksBody)
         THEN asyncHandler(createTodoHandler(self, req.body, t))
         ELSE Handled(self, Sent(400, <<>>))
    ELSE IF req.method = "GET" /\ Len(path) = 1
    THEN IF numericId = 0
         THEN Handled(self, Sent(400, <<>>))
         ELSE asyncHandler(getTodoByIdHandler(self, numericId))
    ELSE IF req.method = "PUT" /\ Len(path) = 1
    THEN IF numericId = 0
         THEN Handled(self, Sent(400, <<>>))
         ELSE IF validateUpdateTodo(req.body, checksBody)
         THEN asyncHandler(updateTodoHandler(self, numericId, req.body, t))
         ELSE Handled(self, Sent(400, <<>>))
    ELSE IF req.method = "DELETE" /\ Len(path) = 1
    THEN IF numericId = 0
         THEN Handled(self, Sent(400, <<>>))
         ELSE asyncHandler(deleteTodoHandler(self, numericId))
    ELSE IF req.method = "PATCH" /\ Len(path) = 2 /\ path[2] = ToggleSegment
    THEN IF numericId = 0
         THEN Handled(self, Sent(400, <<>>))
         ELSE asyncHandler(toggleTodoHandler(self, numericId, t))
    ELSE notFoundHandler(self)

\* ---- the application: the middleware in front of the router, in order
app(self, req, t, checksBody) ==
    IF ~validateRequestSize(req)
    THEN Handled(self, Sent(413, <<>>))
    ELSE IF ~validateContentType(req)
    THEN Handled(self, Sent(400, <<>>))
    ELSE todoRoutes(self, req, t, checksBody)

\* ------------------------------------------------- the single-file server
\* server.ts keeps its own todos and nextId and validates in its handlers.
\* parseInt(req.params.id, 10): the number written by the leading digits,
\* as <<n>>, or <<>> for NaN when there is none
RECURSIVE DigitPrefix(_)
DigitPrefix(segment) ==
    IF segment # <<>> /\ IsDigit(Head(segment))
    THEN <<Head(segment)>> \o DigitPrefix(Tail(segment))
    ELSE <<>>

parseInt(segment) ==
    IF DigitPrefix(segment) = <<>>
    THEN <<>>
    ELSE <<ParseInt(DigitPrefix(segment))>>

\* isNaN(id) || id < 1
IsInvalidId(id) == id = <<>> \/ id[1] < 1

\* app.get('/todos'): the array itself is the response's data
serverGetTodos(self) == Handled(self, Sent(200, <<self.todos>>))

\* app.post('/todos'); a description that is neither nullish nor a string
\* and passed the checks makes description?.trim() throw after nextId++, and
\* the handler's catch block answers 500
serverPostTodo(self, body, t) ==
    LET title       == body.title
        description == body.description
    IN
    IF ~Truthy(title) \/ ~IsString(title) \/ StrLen(Trim(title.s)) = 0
    THEN Handled(self, Sent(400, <<>>))
    ELSE IF StrLen(Trim(title.s)) > MaxTitleLen
    THEN Handled(self, Sent(400, <<>>))
    ELSE IF Truthy(description) /\ ~IsString(description)
    THEN Handled(self, Sent(400, <<>>))
    ELSE IF Truthy(description) /\ StrLen(Trim(description.s)) > MaxDescLen
    THEN Handled(self, Sent(400, <<>>))
    ELSE IF ~IsNullish(description) /\ ~IsString(description)
    THEN Handled([todos |-> self.todos, nextId |-> self.nextId + 1],
                 Sent(500, <<>>))
    ELSE LET newTodo ==
               [id          |-> self.nextId,
                title       |-> Trim(title.s),
                description |-> IF IsNullish(description)
                                THEN <<>>
                                ELSE Trim(description.s),
                completed   |-> FALSE,
                createdAt   |-> t,
                updatedAt   |-> t]
         IN Handled([todos |-> Append(self.todos, newTodo),
                     nextId |-> self.nextId + 1],
                    Sent(201, <<newTodo>>))

\* app.get('/todos/:id')
serverGetTodo(self, segment) ==
    LET id    == parseInt(segment)
        index == FindIndex(self.todos, id[1])
    IN
    IF IsInvalidId(id)
    THEN Handled(self, Sent(400, <<>>))
    ELSE IF index = 0
    THEN Handled(self, Sent(404, <<>>))
    ELSE Handled(self, Sent(200, <<self.todos[index]>>))

\* app.put('/todos/:id'): the id, then the provided fields, then the same
\* spread as TodoService.updateTodo
serverPutTodo(self, segment, body, t) ==
    LET id          == parseInt(segment)
        todoIndex   == FindIndex(self.todos, id[1])
        title       == body.title
        description == body.description
        completed   == body.completed
    IN
    IF IsInvalidId(id)
    THEN Handled(self, Sent(400, <<>>))
    ELSE IF todoIndex = 0
    THEN Handled(self, Sent(404, <<>>))
    ELSE IF title # JUndefined
            /\ (~IsString(title) \/ StrLen(Trim(title.s)) = 0)
    THEN Handled(self, Sent(400, <<>>))
    ELSE IF title # JUndefined /\ StrLen(Trim(title.s)) > MaxTitleLen
    THEN Handled(self, Sent(400, <<>>))
    ELSE IF description # JUndefined /\ ~IsString(description)
    THEN Handled(self, Sent(400, <<>>))
    ELSE IF completed # JUndefined /\ completed.t # "boolean"
    THEN Handled(self, Sent(400, <<>>))
    ELSE LET updatedTodo == UpdatedTodo(self.todos[todoIndex], body, t)
         IN Handled([todos |-> [self.todos EXCEPT ![todoIndex] = updatedTodo],
                     nextId |-> self.nextId],
                    Sent(200, <<updatedTodo>>))

\* app.delete('/todos/:id')
serverDeleteTodo(self, segment) ==
    LET id        == parseInt(segment)
        todoIndex == FindIndex(self.todos, id[1])
    IN
    IF IsInvalidId(id)
    THEN Handled(self, Sent(400, <<>>))
    ELSE IF todoIndex = 0
    THEN Handled(self, Sent(404, <<>>))
    ELSE Handled([todos |-> Splice(self.todos, todoIndex),
                  nextId |-> self.nextId],
                 Sent(200, <<self.todos[todoIndex]>>))

\* the routes below /todos in registration order, then the 404 catch-all
server(self, req, t) ==
    IF req.method = "GET" /\ req.path = <<>>
    THEN serverGetTodos(self)
    ELSE IF req.method = "POST" /\ req.path = <<>>
    THEN serverPostTodo(self, req.body, t)
    ELSE IF req.method = "GET" /\ Len(req.path) = 1
    THEN serverGetTodo(self, req.path[1])
    ELSE IF req.method = "PUT" /\ Len(req.path) = 1
    THEN serverPutTodo(self, req.path[1], req.body, t)
    ELSE IF req.method = "DELETE" /\ Len(req.path) = 1
    THEN serverDeleteTodo(self, req.path[1])
    ELSE Handled(self, Sent(404, <<>>))

\* ------------------------------------------------------------------- state
\* the exported singleton: todoService = new TodoService()
todoService == [todos |-> todos, nextId |-> nextId]

Init ==
    /\ todos = <<>>
    /\ nextId = 1
    /\ now = 0
    /\ created = <<>>
    /\ deleted = {}

\* time passes between two calls
Tick ==
    /\ now < MaxTime
    /\ now' = now + 1
    /\ UNCHANGED <<todos, nextId, created, deleted>>

\* the service is left as a call's outcome says
Becomes(out) ==
    /\ todos' = out.self.todos
    /\ nextId' = out.self.nextId

GetAllTodos ==
    /\ Becomes(getAllTodos(todoService))
    /\ UNCHANGED <<now, created, deleted>>

GetTodoById(id) ==
    /\ Becomes(getTodoById(todoService, id))
    /\ UNCHANGED <<now, created, deleted>>

CreateTodo(input) ==
    /\ LET out == createTodo(todoService, input, now) IN
         /\ Becomes(out)
         /\ created' = IF out.result.status = "ok"
                       THEN Append(created, out.result.val[1].id)
                       ELSE created
    /\ UNCHANGED <<now, deleted>>

UpdateTodo(id, input) ==
    /\ Becomes(updateTodo(todoService, id, input, now))
    /\ UNCHANGED <<now, created, deleted>>

DeleteTodo(id) ==
    /\ LET out == deleteTodo(todoService, id) IN
         /\ Becomes(out)
         /\ deleted' = IF out.result.status = "ok"
                       THEN deleted \cup {id}
                       ELSE deleted
    /\ UNCHANGED <<now, created>>

ToggleTodo(id) ==
    /\ Becomes(toggleTodo(todoService, id, now))
    /\ UNCHANGED <<now, created, deleted>>

GetStats ==
    /\ Becomes(getStats(todoService))
    /\ UNCHANGED <<now, created, deleted>>

Next ==
    \/ Tick
    \/ GetAllTodos
    \/ \E id \in Ids : GetTodoById(id)
    \/ nextId <= MaxId /\ \E input \in CreateInputs : CreateTodo(input)
    \/ \E id \in Ids : \E input \in UpdateInputs : UpdateTodo(id, input)
    \/ \E id \in Ids : DeleteTodo(id)
    \/ \E id \in Ids : ToggleTodo(id)
    \/ GetStats

Spec == Init /\ [][Next]_vars

\* The same service, called with few field values within one millisecond, so
\* that more todos are explored.
NextLifecycle ==
    \/ GetAllTodos
    \/ \E id \in LifecycleIds : GetTodoById(id)
    \/ nextId <= MaxLifecycleId
          /\ \E input \in LifecycleCreateInputs : CreateTodo(input)
    \/ \E id \in LifecycleIds : \E input \in LifecycleUpdateInputs :
          UpdateTodo(id, input)
    \/ \E id \in LifecycleIds : DeleteTodo(id)
    \/ \E id \in LifecycleIds : ToggleTodo(id)
    \/ GetStats

SpecLifecycle == Init /\ [][NextLifecycle]_vars

\* The statistics of a long list: the service after total todos were created
\* and the first completed of them were toggled, all within one millisecond.
StatsTodo(id, completed) ==
    [id |-> id, title |-> Rep("a", 1), description |-> <<>>,
     completed |-> completed, createdAt |-> 0, updatedAt |-> 0]

InitStats ==
    \E total \in 0 .. MaxStatsTodos : \E completed \in 0 .. total :
        /\ todos = [i \in 1 .. total |-> StatsTodo(i, i <= completed)]
        /\ nextId = total + 1
        /\ now = 0
        /\ created = [i \in 1 .. total |-> i]
        /\ deleted = {}

NextStats ==
    \/ GetStats
    \/ GetAllTodos

SpecStats == InitStats /\ [][NextStats]_vars

\* The whole life of a collection that is empty or long: the service as
\* constructed, or after LongListTodos todos were created and all of them
\* but the last one, or all of them, were toggled, all within one
\* millisecond; then every operation of the service.
InitLongList ==
    \E total \in {0, LongListTodos} :
        \E completed \in { c \in (total - 1) .. total : c >= 0 } :
            /\ todos = [i \in 1 .. total |-> StatsTodo(i, i <= completed)]
            /\ nextId = total + 1
            /\ now = 0
            /\ created = [i \in 1 .. total |-> i]
            /\ deleted = {}

SpecLongList == InitLongList /\ [][NextLifecycle]_vars

\* ------------------------------------------------------------------ callers
\* What a caller's assignments do to an object it holds
CallerWrite(todo) ==
    [todo EXCEPT !.title = Rep("x", 1), !.completed = TRUE]

\* A caller assigns to the fields of element k of the array getAllTodos
\* returned: the element is the stored object itself.
CallerMutatesListed(k) ==
    /\ LET list == getAllTodos(todoService).result.list IN
         /\ k \in 1 .. Len(list)
         /\ todos' = [todos EXCEPT ![list[k]] = CallerWrite(@)]
    /\ UNCHANGED <<nextId, now, created, deleted>>

\* A caller assigns to the fields of the object getTodoById returned: the
\* object is the caller's own.
CallerMutatesFetched(id) ==
    /\ LET result == getTodoById(todoService, id).result IN
         /\ result.status = "ok"
         /\ CallerWrite(result.val[1]) # result.val[1]
    /\ UNCHANGED vars

NextWithCallers ==
    \/ Next
    \/ \E k \in 1 .. MaxId : CallerMutatesListed(k)
    \/ \E id \in Ids : CallerMutatesFetched(id)

SpecCallers == Init /\ [][NextWithCallers]_vars

\* The service behind the application: every step is one request served
\* from the middleware chain to the response, all within one millisecond.
HttpMethods == {"GET", "POST", "PUT", "DELETE", "PATCH"}

HttpContentTypes == {NoHeader, JsonType, JsonUtf8Type, TextType}

HttpIds == 1 .. (MaxHttpId + 1)

HttpPaths ==
    { <<>>, <<StatsSegment>>, <<ToggleSegment>>, <<DecimalString(0)>>,
      <<DecimalString(1), StatsSegment>> }
    \cup { <<DecimalString(id)>> : id \in HttpIds }
    \cup { <<DecimalString(id), ToggleSegment>> : id \in HttpIds }

HttpBodies ==
    { EmptyBody,
      Body(ValidTitle, JUndefined, JUndefined),
      Body(JStr(<<Run(" ", 1), Run("a", 1), Run("\t", 2)>>), JNull,
           JBool(TRUE)),
      Body(ValidTitle, JNum(0), JUndefined),
      Body(JStr(Rep("a", MaxTitleLen + 1)), JUndefined, JUndefined),
      Body(JUndefined, JUndefined, JBool(TRUE)),
      Body(JUndefined, JStr(Rep("d", 1)), JUndefined),
      Body(JUndefined, JUndefined, JNum(1)) }

\* every method on every path with every Content-Type and no body, the
\* bodies as JSON on the routes that read one, and an oversized request
HttpRequests ==
    { Request(method, path, contentType, 0, EmptyBody) :
        method \in HttpMethods, path \in HttpPaths,
        contentType \in HttpContentTypes }
    \cup { Request(method, path, JsonType, 1, body) :
        method \in {"POST", "PUT"},
        path \in {<<>>} \cup { <<DecimalString(id)>> : id \in HttpIds },
        body \in HttpBodies }
    \cup { Request(method, <<>>, JsonType, MaxRequestSize + 1, EmptyBody) :
        method \in {"GET", "POST"} }

Serve(req, checksBody) ==
    /\ LET handled == app(todoService, req, now, checksBody) IN
         /\ Becomes(handled)
         /\ created' = IF handled.reply.status = 201
                       THEN Append(created, handled.reply.data[1].id)
                       ELSE created
         /\ deleted' = IF req.method = "DELETE" /\ handled.reply.status = 200
                       THEN deleted \cup {handled.reply.data[1].id}
                       ELSE deleted
    /\ UNCHANGED now

NextHttp ==
    \E req \in HttpRequests : \E checksBody \in BOOLEAN :
        /\ req.method = "POST" => nextId <= MaxHttpId
        /\ Serve(req, checksBody)

SpecHttp == Init /\ [][NextHttp]_vars

\* The single-file server: every step is one request served by server.ts,
\* all within one millisecond.
ServerBodies ==
    HttpBodies
    \cup { Body(JUndefined, JStr(Rep("d", MaxDescLen + 1)), JUndefined),
           Body(JStr(Rep("a", MaxTitleLen)), JStr(Rep("d", MaxDescLen)),
                JBool(FALSE)) }

ServerRequests ==
    { Request(method, path, NoHeader, 0, EmptyBody) :
        method \in HttpMethods, path \in HttpPaths }
    \cup { Request(method, path, JsonType, 1, body) :
        method \in {"POST", "PUT"},
        path \in {<<>>} \cup { <<DecimalString(id)>> : id \in HttpIds },
        body \in ServerBodies }

ServerServe(req) ==
    /\ LET handled == server(todoService, req, now) IN
         /\ Becomes(handled)
         /\ created' = IF handled.reply.status = 201
                       THEN Append(created, handled.reply.data[1].id)
                       ELSE created
         /\ deleted' = IF req.method = "DELETE" /\ handled.reply.status = 200
                       THEN deleted \cup {handled.reply.data[1].id}
                       ELSE deleted
    /\ UNCHANGED now

NextServer ==
    \E req \in ServerRequests :
        /\ req.method = "POST" => nextId <= MaxHttpId
        /\ ServerServe(req)

SpecServer == Init /\ [][NextServer]_vars

\* =================================================================== claims
\* t is s without its leading and trailing whitespace, said without Trim:
\* a slice of s that neither starts nor ends with whitespace and that leaves
\* only whitespace on either side.
IsTrimOf(t, s) ==
    \E i \in 1 .. (Len(s) + 1) : \E j \in 0 .. Len(s) :
        /\ t = SubSeq(s, i, j)
        /\ \A k \in 1 .. (i - 1) : IsWhitespace(s[k].c)
        /\ \A k \in (j + 1) .. Len(s) : IsWhitespace(s[k].c)
        /\ t # <<>> => ~IsWhitespace(t[1].c) /\ ~IsWhitespace(t[Len(t)].c)

\* the number of characters s keeps once trimmed, said without Trim
TrimmedLen(s) ==
    IF \A k \in 1 .. Len(s) : IsWhitespace(s[k].c)
    THEN 0
    ELSE LET first == CHOOSE i \in 1 .. Len(s) :
                        /\ ~IsWhitespace(s[i].c)
                        /\ \A k \in 1 .. (i - 1) : IsWhitespace(s[k].c)
             last  == CHOOSE j \in 1 .. Len(s) :
                        /\ ~IsWhitespace(s[j].c)
                        /\ \A k \in (j + 1) .. Len(s) : IsWhitespace(s[k].c)
         IN StrLen(SubSeq(s, first, last))

\* a title createTodo is to accept: a string of 1..200 characters once trimmed
IsValidTitle(v) ==
    /\ v.t = "string"
    /\ TrimmedLen(v.s) >= 1
    /\ TrimmedLen(v.s) <= MaxTitleLen

IdsOf(list) == [i \in 1 .. Len(list) |-> list[i].id]

IsStored(id) == \E i \in 1 .. Len(todos) : todos[i].id = id

Failed(result) == result.status # "ok"

\* C1: a successful createTodo with a valid title returns a todo with the
\* trimmed title, completed = false and an id greater than every id an
\* earlier createTodo returned, deleted ones included.
C1_CreateReturnsFreshTodo ==
    \A input \in CreateInputs :
        LET result == createTodo(todoService, input, now).result IN
        (IsValidTitle(input.title) /\ result.status = "ok") =>
            /\ IsTrimOf(result.val[1].title, input.title.s)
            /\ result.val[1].completed = FALSE
            /\ \A i \in 1 .. Len(created) : result.val[1].id > created[i]

\* an earlier todo was created and deleted, and a title with surrounding
\* whitespace is accepted now
C1_Witness ==
    /\ Len(created) >= 1
    /\ deleted # {}
    /\ nextId <= MaxId
    /\ \E input \in CreateInputs :
        /\ IsValidTitle(input.title)
        /\ input.title.s # Rep("a", 1)
        /\ Len(input.title.s) > 1
        /\ createTodo(todoService, input, now).result.status = "ok"

\* C2: nothing a caller does to a returned array, or to a todo object
\* reachable from a returned value, changes the stored collection.
C2_CallerCannotChangeStore ==
    [][ ( \/ \E k \in 1 .. MaxId : CallerMutatesListed(k)
          \/ \E id \in Ids : CallerMutatesFetched(id) )
        => todos' = todos ]_vars

\* C3: a createTodo, updateTodo, deleteTodo or toggleTodo that fails leaves
\* the collection and the id counter as they were.
C3_FailureChangesNothing ==
    /\ \A input \in LifecycleCreateInputs :
        LET out == createTodo(todoService, input, now) IN
        Failed(out.result) => out.self = todoService
    /\ \A id \in AnyId : \A input \in UpdateInputs :
        LET out == updateTodo(todoService, id, input, now) IN
        Failed(out.result) => out.self = todoService
    /\ \A id \in AnyId :
        LET out == deleteTodo(todoService, id) IN
        Failed(out.result) => out.self = todoService
    /\ \A id \in AnyId :
        LET out == toggleTodo(todoService, id, now) IN
        Failed(out.result) => out.self = todoService

\* C4: createTodo fails with a validation error and stores nothing when the
\* description is provided and is not a string (null, false and 0 included),
\* when the trimmed description is longer than 1000 characters, or when the
\* trimmed title is longer than 200 characters.
C4_CreateRejectsBadDescription ==
    \A input \in CreateInputs :
        LET out == createTodo(todoService, input, now) IN
        ( \/ input.description.t \notin {"undefined", "string"}
          \/ input.description.t = "string"
                /\ TrimmedLen(input.description.s) > MaxDescLen
          \/ input.title.t = "string"
                /\ TrimmedLen(input.title.s) > MaxTitleLen )
        => /\ out.result.status = "Error"
           /\ out.self.todos = todos

\* a title that is missing, not a string, empty or only whitespace
IsBlankTitle(v) ==
    \/ v.t # "string"
    \/ \A k \in 1 .. Len(v.s) : IsWhitespace(v.s[k].c)

\* the todos a caller reads through the array getAllTodos returns
Listing(self) ==
    LET list == getAllTodos(self).result.list IN
    [i \in 1 .. Len(list) |-> self.todos[list[i]]]

\* C5: createTodo with a missing, non-string, empty or whitespace-only title
\* fails with a validation error in every state, and getAllTodos returns the
\* same list afterwards as before.
C5_CreateRejectsBlankTitle ==
    \A input \in CreateInputs :
        LET out == createTodo(todoService, input, now) IN
        IsBlankTitle(input.title) =>
            /\ out.result.status = "Error"
            /\ Listing(out.self) = Listing(todoService)

\* todos are stored and a whitespace-only title is turned down
C5_Witness ==
    /\ Len(todos) >= 1
    /\ \E input \in CreateInputs :
        /\ input.title.t = "string"
        /\ input.title.s # <<>>
        /\ IsBlankTitle(input.title)
        /\ createTodo(todoService, input, now).result.msg
             = "Title cannot be empty"

\* C6: for an id that is not stored updateTodo gives the not-found signal for
\* every input, valid or not, and never a validation error; for a stored id a
\* completed that is provided and is not a boolean is a validation error.
C6_UpdateChecksExistenceFirst ==
    \A id \in AnyId : \A input \in UpdateInputs :
        LET out == updateTodo(todoService, id, input, now) IN
        /\ ~IsStored(id) => out.result.status = "null"
        /\ (IsStored(id) /\ input.completed.t \notin {"undefined", "boolean"})
              => out.result.status = "Error"
        /\ out.result.status = "Error" => IsStored(id)

\* some id is stored and another is not, so that the same invalid input is a
\* validation error for the one and not-found for the other
C6_Witness ==
    \E id \in AnyId : \E missing \in AnyId : \E input \in UpdateInputs :
        /\ IsStored(id)
        /\ ~IsStored(missing)
        /\ missing \in deleted
        /\ updateTodo(todoService, id, input, now).result.status = "Error"
        /\ updateTodo(todoService, missing, input, now).result.status = "null"

\* C7: a successful updateTodo changes, in the todo with that id, only the
\* provided fields (title and description stored trimmed) and updatedAt; its
\* id, createdAt, the fields not provided, its position, every other todo and
\* the id counter stay as they were.
C7_UpdateChangesOnlyProvidedFields ==
    \A id \in {todos[i].id : i \in 1 .. Len(todos)} :
    \A input \in UpdateInputs :
        LET out    == updateTodo(todoService, id, input, now)
            before == todos
            after  == out.self.todos
        IN out.result.status = "ok" =>
            /\ out.self.nextId = nextId
            /\ Len(after) = Len(before)
            /\ \A i \in 1 .. Len(before) :
                IF before[i].id # id
                THEN after[i] = before[i]
                ELSE /\ after[i].id = before[i].id
                     /\ after[i].createdAt = before[i].createdAt
                     /\ after[i].updatedAt = now
                     /\ IF input.title = JUndefined
                        THEN after[i].title = before[i].title
                        ELSE IsTrimOf(after[i].title, input.title.s)
                     /\ IF input.description = JUndefined
                        THEN after[i].description = before[i].description
                        ELSE IsTrimOf(after[i].description,
                                      input.description.s)
                     /\ IF input.completed = JUndefined
                        THEN after[i].completed = before[i].completed
                        ELSE after[i].completed = input.completed.b
                     /\ out.result.val[1] = after[i]

\* two todos are stored, the first one completed and with a description, and
\* a later update of its title alone goes through
C7_Witness ==
    /\ Len(todos) = 2
    /\ todos[1].completed
    /\ todos[1].description # <<>>
    /\ todos[1].updatedAt < now
    /\ \E input \in UpdateInputs :
        /\ input.title # JUndefined
        /\ input.description = JUndefined
        /\ input.completed = JUndefined
        /\ updateTodo(todoService, todos[1].id, input, now).result.status = "ok"

\* C8: on an existing id, updateTodo rejects a title value (resp. a
\* description value) with a validation error exactly when createTodo rejects
\* the same title (resp. a valid title with the same description).
C8_UpdateValidatesLikeCreate ==
    \A id \in AnyId : IsStored(id) =>
        /\ \A v \in TitleValues \ {JUndefined} :
            (updateTodo(todoService, id,
                        [title |-> v, description |-> JUndefined,
                         completed |-> JUndefined], now).result.status = "Error")
            <=> (createTodo(todoService,
                            [title |-> v, description |-> JUndefined],
                            now).result.status = "Error")
        /\ \A v \in DescriptionValues \ {JUndefined} :
            (updateTodo(todoService, id,
                        [title |-> JUndefined, description |-> v,
                         completed |-> JUndefined], now).result.status = "Error")
            <=> (createTodo(todoService,
                            [title |-> ValidTitle, description |-> v],
                            now).result.status = "Error")

\* C9: deleteTodo of a stored id removes exactly that todo and returns it as
\* it was; from then on getTodoById, updateTodo, toggleTodo and deleteTodo of
\* that id give the not-found signal, and no createTodo brings the id back.
C9_DeletionIsFinal ==
    /\ \A id \in AnyId : IsStored(id) =>
        LET out == deleteTodo(todoService, id) IN
        /\ out.result.status = "ok"
        /\ \E i \in 1 .. Len(todos) :
            /\ todos[i].id = id
            /\ out.result.val[1] = todos[i]
        /\ out.self.todos = SelectSeq(todos, LAMBDA todo : todo.id # id)
        /\ Len(out.self.todos) = Len(todos) - 1
    /\ \A id \in deleted :
        /\ ~IsStored(id)
        /\ getTodoById(todoService, id).result.status = "null"
        /\ deleteTodo(todoService, id).result.status = "null"
        /\ toggleTodo(todoService, id, now).result.status = "null"
        /\ \A input \in UpdateInputs :
            updateTodo(todoService, id, input, now).result.status = "null"
        /\ \A input \in CreateInputs :
            LET out == createTodo(todoService, input, now) IN
            \A i \in 1 .. Len(out.self.todos) : out.self.todos[i].id # id

\* three todos were created, one of them was deleted and two are stored
C9_Witness ==
    /\ Len(created) = 3
    /\ deleted # {}
    /\ Len(todos) = 2

\* C10: getAllTodos never fails and returns the stored todos in creation
\* order: the created todos, in the order of their creation, without the
\* deleted ones; update, toggle and delete leave the order of the rest alone.
C10_ListingInCreationOrder ==
    /\ getAllTodos(todoService).result.status = "ok"
    /\ Listing(todoService) = todos
    /\ IdsOf(Listing(todoService))
         = SelectSeq(created, LAMBDA id : id \notin deleted)
    /\ \A id \in AnyId :
        /\ IdsOf(deleteTodo(todoService, id).self.todos)
             = SelectSeq(IdsOf(todos), LAMBDA other : other # id)
        /\ IdsOf(toggleTodo(todoService, id, now).self.todos) = IdsOf(todos)
        /\ \A input \in UpdateInputs :
            IdsOf(updateTodo(todoService, id, input, now).self.todos)
              = IdsOf(todos)

\* three todos were created, the first was deleted, and of the two that are
\* left the first was updated and the second toggled
C10_Witness ==
    /\ Len(created) = 3
    /\ created[1] \in deleted
    /\ Len(todos) = 2
    /\ todos[1].title = Rep("a", MaxTitleLen)
    /\ todos[2].completed

\* C11: toggleTodo of a stored id flips completed, sets updatedAt to the
\* current time and changes nothing else: id, title, description, createdAt,
\* the todo's position, the other todos and the next-id counter stay as they
\* were; a second toggle restores the original completed value; toggleTodo
\* of an id that is not stored returns null and changes nothing.
C11_ToggleFlipsCompletedOnly ==
    \A id \in AnyId :
        LET out == toggleTodo(todoService, id, now)
            index == FindIndex(todos, id)
        IN IF IsStored(id)
           THEN /\ out.result.status = "ok"
                /\ out.self.nextId = nextId
                /\ Len(out.self.todos) = Len(todos)
                /\ \A i \in 1 .. Len(todos) :
                     i # index => out.self.todos[i] = todos[i]
                /\ out.self.todos[index]
                     = [id |-> todos[index].id,
                        title |-> todos[index].title,
                        description |-> todos[index].description,
                        completed |-> ~todos[index].completed,
                        createdAt |-> todos[index].createdAt,
                        updatedAt |-> now]
                /\ out.result.val = <<out.self.todos[index]>>
                /\ toggleTodo(out.self, id, now).self.todos[index].completed
                     = todos[index].completed
           ELSE /\ out.result.status = "null"
                /\ out.self = todoService

\* two todos are stored, the second was toggled to completed at an earlier
\* time than now, so that a toggle both clears the flag and moves updatedAt
C11_Witness ==
    /\ Len(todos) = 2
    /\ todos[2].completed
    /\ todos[2].updatedAt < now

\* the number of completed todos of a list, counted one by one
RECURSIVE CountCompleted(_)
CountCompleted(list) ==
    IF list = <<>>
    THEN 0
    ELSE (IF Head(list).completed THEN 1 ELSE 0) + CountCompleted(Tail(list))

\* completed / total * 100 rounded to the nearest integer, halves upwards
RoundedPercent(completed, total) ==
    (200 * completed + total) \div (2 * total)

\* C12: getStats never fails and returns total = the number of stored todos,
\* completed = the number of them with completed true, pending = total -
\* completed, and completionRate = completed / total * 100 rounded to the
\* nearest integer (halves upwards) when total > 0, and 0 when total = 0.
C12_StatsCountAndRound ==
    LET result == getStats(todoService).result
        stats  == result.val[1]
    IN /\ result.status = "ok"
       /\ stats.total = Len(todos)
       /\ stats.completed = CountCompleted(todos)
       /\ stats.pending = stats.total - stats.completed
       /\ stats.completionRate
            = IF stats.total > 0
              THEN RoundedPercent(stats.completed, stats.total)
              ELSE 0

\* the requests of one kind that clients send
RequestsTo(method, path) ==
    { req \in HttpRequests : req.method = method /\ req.path = path }

\* the process has served no request that changed the service
IsFresh == nextId = 1 /\ todos = <<>> /\ created = <<>>

\* C13: from a fresh process, a successful POST /todos of a valid title
\* responds 201 with data.id = 1, data.title equal to the posted title and
\* data.completed = false; GET /todos/stats then reports completionRate 0;
\* PATCH /todos/1/toggle then responds with data.completed = true; and
\* GET /todos/stats then reports completionRate 100.
C13_FreshProcessScenario ==
    IsFresh =>
    \A checksBody \in BOOLEAN :
    \A post \in RequestsTo("POST", <<>>) :
    \A stats \in RequestsTo("GET", <<StatsSegment>>) :
    \A patch \in RequestsTo("PATCH", <<DecimalString(1), ToggleSegment>>) :
        LET posted  == app(todoService, post, now, checksBody)
            before  == app(posted.self, stats, now, checksBody)
            toggled == app(posted.self, patch, now, checksBody)
            after   == app(toggled.self, stats, now, checksBody)
        IN (IsValidTitle(post.body.title) /\ posted.reply.status < 400)
           => /\ posted.reply.status = 201
              /\ posted.reply.data[1].id = 1
              /\ posted.reply.data[1].title = post.body.title.s
              /\ ~posted.reply.data[1].completed
              /\ before.reply.data # <<>>
              /\ before.reply.data[1].completionRate = 0
              /\ toggled.reply.data # <<>>
              /\ toggled.reply.data[1].completed
              /\ after.reply.data # <<>>
              /\ after.reply.data[1].completionRate = 100

\* updateTodo's input { completed: true }
CompletedTrue ==
    [title |-> JUndefined, description |-> JUndefined,
     completed |-> JBool(TRUE)]

\* C14 as stated: after updateTodo(id, {completed: true}) succeeds,
\* getTodoById(id) returns completed = true and an updatedAt strictly later
\* than the todo's createdAt, whenever the update is performed.
C14_UpdatedAtStrictlyLater ==
    \A id \in AnyId :
        LET out == updateTodo(todoService, id, CompletedTrue, now)
            got == getTodoById(out.self, id).result
        IN out.result.status = "ok"
           => /\ got.status = "ok"
              /\ got.val[1].completed
              /\ got.val[1].updatedAt > got.val[1].createdAt

\* C14: after updateTodo(id, {completed: true}) succeeds, getTodoById(id)
\* returns completed = true and an updatedAt that is the time of the update:
\* never earlier than the todo's createdAt, and strictly later exactly when
\* the millisecond clock has advanced since the todo was created.
C14_UpdatedAtNotEarlier ==
    \A id \in AnyId :
        LET out == updateTodo(todoService, id, CompletedTrue, now)
            got == getTodoById(out.self, id).result
        IN out.result.status = "ok"
           => /\ got.status = "ok"
              /\ got.val[1].completed
              /\ got.val[1].updatedAt = now
              /\ got.val[1].updatedAt >= got.val[1].createdAt
              /\ (got.val[1].updatedAt > got.val[1].createdAt)
                   <=> \E i \in 1 .. Len(todos) :
                         todos[i].id = id /\ todos[i].createdAt < now

\* a pending todo created in an earlier millisecond and not touched since,
\* next to one created in the current millisecond
C14_Witness ==
    /\ Len(todos) = 2
    /\ todos[1].createdAt < now
    /\ todos[1].updatedAt = todos[1].createdAt
    /\ ~todos[1].completed
    /\ todos[2].createdAt = now

\* C15: no two stored todos have the same id, every stored id is a positive
\* integer, and every stored id is strictly smaller than the next-id counter.
C15_IdsUniquePositiveBelowCounter ==
    /\ \A i, j \in 1 .. Len(todos) : todos[i].id = todos[j].id => i = j
    /\ \A i \in 1 .. Len(todos) :
        /\ todos[i].id \in Nat
        /\ todos[i].id >= 1
        /\ todos[i].id < nextId

\* two todos are stored and the counter has passed an id that no todo got:
\* a create failed after it had taken the id
C15_Witness ==
    /\ Len(todos) = 2
    /\ Len(created) = 2
    /\ nextId = 4

\* s neither starts nor ends with whitespace
IsTrimmed(s) ==
    s # <<>> => ~IsWhitespace(s[1].c) /\ ~IsWhitespace(s[Len(s)].c)

\* the number of characters of s, run by run
RECURSIVE Chars(_)
Chars(s) == IF s = <<>> THEN 0 ELSE Head(s).n + Chars(Tail(s))

\* C16: every stored todo has a title that is trimmed, non-empty and at most
\* 200 characters long, a description that is a trimmed string of at most
\* 1000 characters, and a boolean completed; a todo created without a
\* description stores the empty one, and no update that provides a completed
\* that is not a boolean succeeds.
C16_StoredFieldsWellFormed ==
    /\ \A i \in 1 .. Len(todos) :
        /\ IsTrimmed(todos[i].title)
        /\ Chars(todos[i].title) >= 1
        /\ Chars(todos[i].title) <= MaxTitleLen
        /\ IsTrimmed(todos[i].description)
        /\ Chars(todos[i].description) <= MaxDescLen
        /\ todos[i].completed \in BOOLEAN
    /\ \A input \in CreateInputs :
        input.description = JUndefined
        => LET out == createTodo(todoService, input, now) IN
           out.result.status = "ok" => out.result.val[1].description = <<>>
    /\ \A input \in UpdateInputs :
        input.completed.t \notin {"undefined", "boolean"}
        => \A id \in AnyId :
             updateTodo(todoService, id, input, now).result.status # "ok"

\* a stored todo whose title and description have their greatest lengths,
\* both written by an update, next to one created without a description
C16_Witness ==
    /\ Len(todos) = 2
    /\ Chars(todos[1].title) = MaxTitleLen
    /\ Chars(todos[1].description) = MaxDescLen
    /\ todos[1].updatedAt > todos[1].createdAt
    /\ todos[2].description = <<>>

\* the stored todo with this id, as a sequence of at most one todo
StoredWith(list, id) == SelectSeq(list, LAMBDA todo : todo.id = id)

\* updates of no field, and of each single field
FieldUpdates ==
    { [title |-> JUndefined, description |-> JUndefined,
       completed |-> JUndefined],
      [title |-> JStr(Rep("b", 1)), description |-> JUndefined,
       completed |-> JUndefined],
      [title |-> JUndefined, description |-> JStr(Rep("e", 1)),
       completed |-> JUndefined],
      CompletedTrue }

\* C17: with a clock that never goes backwards every stored todo has
\* updatedAt >= createdAt; createTodo sets createdAt and updatedAt to the
\* same time, and neither updateTodo nor toggleTodo changes createdAt.
C17_CreatedAtFixedUpdatedAtLater ==
    /\ \A i \in 1 .. Len(todos) : todos[i].updatedAt >= todos[i].createdAt
    /\ \A input \in LifecycleCreateInputs :
        LET out == createTodo(todoService, input, now) IN
        out.result.status = "ok"
        => /\ out.result.val[1].createdAt = out.result.val[1].updatedAt
           /\ StoredWith(out.self.todos, out.result.val[1].id)
                = out.result.val
    /\ \A i \in 1 .. Len(todos) :
        /\ \A input \in FieldUpdates :
            LET out == updateTodo(todoService, todos[i].id, input, now) IN
            /\ Len(out.self.todos) = Len(todos)
            /\ out.self.todos[i].createdAt = todos[i].createdAt
        /\ LET out == toggleTodo(todoService, todos[i].id, now) IN
            /\ Len(out.self.todos) = Len(todos)
            /\ out.self.todos[i].createdAt = todos[i].createdAt

\* a todo created in an earlier millisecond and changed in the current one,
\* next to one that was created in the current millisecond
C17_Witness ==
    /\ Len(todos) = 2
    /\ todos[1].createdAt < todos[1].updatedAt
    /\ todos[1].updatedAt = now
    /\ todos[2].createdAt = now
    /\ todos[2].updatedAt = now

\* the service input a controller builds from a body
CreateInputOf(body) == [title |-> body.title, description |-> body.description]

\* the status the adapter owes to the outcome of a service call: success,
\* 400 for a validation error, 404 for an id that is not stored, and 500 for
\* every other failure
StatusOwed(result, success) ==
    CASE result.status = "ok"    -> success
      [] result.status = "Error" -> 400
      [] result.status = "null"  -> 404
      [] OTHER                   -> 500

\* C18: the controllers map the outcome of the service call to the status:
\* a validation error gives 400, an id that is not stored gives 404, and
\* every other failure, a runtime error thrown inside createTodo or
\* updateTodo included, gives 500 and never 400 or 404.
C18_ErrorKindsToStatuses ==
    /\ \A body \in HttpBodies :
        asyncHandler(createTodoHandler(todoService, body, now)).reply.status
          = StatusOwed(createTodo(todoService, CreateInputOf(body), now).result,
                       201)
    /\ \A id \in HttpIds :
        /\ \A body \in HttpBodies :
            asyncHandler(updateTodoHandler(todoService, id, body, now))
                .reply.status
              = StatusOwed(updateTodo(todoService, id, body, now).result, 200)
        /\ asyncHandler(getTodoByIdHandler(todoService, id)).reply.status
             = StatusOwed(getTodoById(todoService, id).result, 200)
        /\ asyncHandler(deleteTodoHandler(todoService, id)).reply.status
             = StatusOwed(deleteTodo(todoService, id).result, 200)
        /\ asyncHandler(toggleTodoHandler(todoService, id, now)).reply.status
             = StatusOwed(toggleTodo(todoService, id, now).result, 200)

\* C19: PATCH /todos/:id/toggle for a stored id always reaches the toggle
\* handler and responds 200 with the flipped todo, with or without a
\* Content-Type header; for an id that is not stored it responds 404.
C19_ToggleRouteAlwaysReached ==
    \A checksBody \in BOOLEAN : \A id \in HttpIds :
    \A patch \in RequestsTo("PATCH", <<DecimalString(id), ToggleSegment>>) :
        LET handled == app(todoService, patch, now, checksBody) IN
        IF IsStored(id)
        THEN /\ handled = asyncHandler(toggleTodoHandler(todoService, id, now))
             /\ handled.reply.status = 200
             /\ handled.reply.data # <<>>
             /\ handled.reply.data[1].id = id
             /\ handled.reply.data[1].completed
                  = ~StoredWith(todos, id)[1].completed
        ELSE /\ handled.reply.status = 404
             /\ handled.self = todoService

\* C20: the calls of concurrently arriving requests are served one after the
\* other, in any order, each to completion: no two successful creates have
\* returned the same id and the next successful create returns an id that
\* none has returned; and an update, toggle or delete of an id whose delete
\* has succeeded returns null and leaves the service as it is.
C20_CallsRunToCompletion ==
    /\ \A i, j \in 1 .. Len(created) : created[i] = created[j] => i = j
    /\ \A input \in LifecycleCreateInputs :
        LET out == createTodo(todoService, input, now) IN
        out.result.status = "ok"
        => \A i \in 1 .. Len(created) : created[i] # out.result.val[1].id
    /\ \A id \in deleted :
        /\ deleteTodo(todoService, id)
             = Outcome(todos, nextId, ReturnedNull)
        /\ toggleTodo(todoService, id, now)
             = Outcome(todos, nextId, ReturnedNull)
        /\ \A input \in LifecycleUpdateInputs :
            updateTodo(todoService, id, input, now)
              = Outcome(todos, nextId, ReturnedNull)

\* three creates have succeeded, the second todo was deleted and the calls
\* that followed left the other two
C20_Witness ==
    /\ Len(created) = 3
    /\ created[2] \in deleted
    /\ Len(todos) = 2
    /\ todos[2].completed

\* a GET /stats as the router can receive it: any headers, any parsed body
StatsRequests ==
    { Request("GET", <<StatsSegment>>, contentType, contentLength, body) :
        contentType \in HttpContentTypes,
        contentLength \in {0, MaxRequestSize + 1},
        body \in HttpBodies }

\* C21: in every state the router dispatches GET /stats to the statistics
\* handler, which answers 200 with the statistics of the stored todos and
\* changes nothing; the request is never taken by the /:id route, so it is
\* never answered with 400 or 404.  Every such request that the size check
\* in front of the router lets through gets this answer from the application.
C21_StatsRouteBeforeIdRoute ==
    \A checksBody \in BOOLEAN : \A req \in StatsRequests :
        LET handled == todoRoutes(todoService, req, now, checksBody) IN
        /\ handled = asyncHandler(getTodoStatsHandler(todoService))
        /\ handled.self = todoService
        /\ handled.reply.status = 200
        /\ handled.reply.data = getStats(todoService).result.val
        /\ handled.reply.data[1].total = Len(todos)
        /\ validateRequestSize(req)
             => app(todoService, req, now, checksBody) = handled

\* three todos were posted, one was deleted and one of the others toggled
C21_Witness ==
    /\ Len(created) = 3
    /\ Len(todos) = 2
    /\ todos[1].completed
    /\ ~todos[2].completed

\* the responses of the single-file server to a POST of this body and to a
\* PUT of this body on this id
PostOf(body) ==
    server(todoService, Request("POST", <<>>, JsonType, 1, body), now)

PutOf(id, body) ==
    server(todoService,
           Request("PUT", <<DecimalString(id)>>, JsonType, 1, body), now)

\* C22: in the single-file server every provided title and every provided
\* description that makes POST /todos respond 400 also makes PUT /todos/:id
\* on a stored id respond 400 and leave the todos as they are.
C22_ServerPutValidatesLikePost ==
    \A i \in 1 .. Len(todos) :
        /\ \A title \in TitleValues \ {JUndefined} :
            PostOf(Body(title, JUndefined, JUndefined)).reply.status = 400
            => LET put == PutOf(todos[i].id,
                                Body(title, JUndefined, JUndefined))
               IN put.reply.status = 400 /\ put.self = todoService
        /\ \A description \in DescriptionValues \ {JUndefined} :
            PostOf(Body(ValidTitle, description, JUndefined)).reply.status
              = 400
            => LET put == PutOf(todos[i].id,
                                Body(JUndefined, description, JUndefined))
               IN put.reply.status = 400 /\ put.self = todoService

\* a larger id never precedes a smaller one
IsAscendingById(list) ==
    \A i, j \in 1 .. Len(list) : i < j => list[i].id < list[j].id

\* C23: in every reachable state the stored list is strictly ascending by
\* id, the ids were handed out in ascending order, and every create, update,
\* toggle and delete leaves a list that is strictly ascending by id.
C23_ListStrictlyAscendingById ==
    /\ IsAscendingById(todos)
    /\ \A i, j \in 1 .. Len(created) : i < j => created[i] < created[j]
    /\ \A input \in LifecycleCreateInputs :
        IsAscendingById(createTodo(todoService, input, now).self.todos)
    /\ \A id \in AnyId :
        /\ IsAscendingById(deleteTodo(todoService, id).self.todos)
        /\ IsAscendingById(toggleTodo(todoService, id, now).self.todos)
        /\ \A input \in LifecycleUpdateInputs :
            IsAscendingById(updateTodo(todoService, id, input, now).self.todos)

\* the first and the third todo are stored, in this order; the second was
\* deleted, the first was updated and the third toggled
C23_Witness ==
    /\ IdsOf(todos) = <<1, 3>>
    /\ deleted = {2}
    /\ todos[1].title = Rep("a", MaxTitleLen)
    /\ todos[2].completed

\* what getStats returns in the current state
CurrentStats == getStats(todoService).result.val[1]

\* the parts of the statement about the counts and about the read operations
StatsCountsAndReads(stats) ==
    /\ stats.total = Len(Listing(todoService))
    /\ stats.total = Len(created) - Cardinality(deleted)
    /\ stats.completed + stats.pending = stats.total
    /\ stats.completed \in 0 .. stats.total
    /\ stats.pending \in 0 .. stats.total
    /\ stats.completed
         = Cardinality({ i \in 1 .. Len(todos) : todos[i].completed })
    /\ stats.completionRate \in 0 .. 100
    /\ getAllTodos(todoService).self = todoService
    /\ getStats(todoService).self = todoService
    /\ getAllTodosHandler(todoService).self = todoService
    /\ \A id \in AnyId \cup {LongListTodos} :
        getTodoById(todoService, id).self = todoService

\* C24 (as stated): total is the length of the listing and the number of
\* successful creates minus the number of successful deletes, completed +
\* pending = total with both non-negative, completionRate is an integer in
\* 0..100 that is 100 exactly when total > 0 and every todo is completed,
\* and the read operations leave the todos and the counter unchanged.
C24_RateHundredOnlyWhenAllCompleted ==
    \A stats \in {CurrentStats} :
        /\ StatsCountsAndReads(stats)
        /\ stats.completionRate = 100
             <=> (stats.total > 0 /\ stats.completed = stats.total)

\* C24 (amended): as above, except that completionRate is 100 exactly when
\* total > 0 and at least 99.5 % of the todos are completed, which every
\* non-empty list of completed todos is, and a list of fewer than 200 todos
\* only when all of them are completed.
C24_RateHundredFromNinetyNineAndAHalf ==
    \A stats \in {CurrentStats} :
        /\ StatsCountsAndReads(stats)
        /\ stats.completionRate = 100
             <=> (stats.total > 0
                  /\ 200 * stats.completed >= 199 * stats.total)
        /\ (stats.total > 0 /\ stats.completed = stats.total)
             => stats.completionRate = 100
        /\ (stats.total < 200 /\ stats.completionRate = 100)
             => stats.completed = stats.total

\* a long list with one pending todo has the rate 100, after a todo was
\* deleted from it
C24_Witness ==
    /\ deleted # {}
    /\ \A stats \in {CurrentStats} :
        /\ stats.total >= 200
        /\ stats.pending = 1
        /\ stats.completionRate = 100

====
